---- MODULE Spec2Model ----
(***************************************************************************)
(* ExecutorManager of the alto bundler (src/src/executor/executorManager.ts)*)
(* as a state machine.  One action is one run of code between two awaits   *)
(* of the single-threaded event loop.  The mempool, the Executor, the gas   *)
(* oracle and the chain are collaborators: their answers are chosen by \E.  *)
(***************************************************************************)
EXTENDS Integers, Sequences, FiniteSets, TLC

(* ---------------------------------------------------------------- bounds *)
\* Transaction Infos the Executor may create in one behaviour.
MaxTx == 2
\* bundle()/bundleNow() invocations that may be in flight at once.
MaxBundleTicks == 2
\* intervals setInterval may have created and not cleared (setBundlingMode keeps it at 1).
MaxTimers == 2
\* frontrun watchers checkFrontrun may have created in one behaviour.
MaxWatchers == 2
\* blocks the chain may grow by in one behaviour.
MaxBlock == 3
\* logs in the transaction receipt that getUserOperationReceipt reads.
MaxLogs == 4

Ops == {"h1", "h2"}
TxIds == 1..MaxTx
Slots == 1..MaxBundleTicks
Modes == {"auto", "manual"}
\* Date.now() readings: below, just below and at the stuck timeout.
Times == <<0, 299999, 300000>>
\* {maxFeePerGas, maxPriorityFeePerGas} readings of the gas oracle / of a broadcast.
GasPrices == {<<1, 1>>, <<2, 1>>}
BundleStatuses == {"not_found", "included", "reverted_AA95", "reverted_AA25", "reverted"}

(* ------------------------------------------------------- program constants *)
StuckTimeout == 5 * 60 * 1000
MaxTimesPotentiallyIncluded == 3
\* this.aa95ResubmitMultiplier, a percentage (configuration).
aa95ResubmitMultiplier == 125
entryPoints == {"EP1"}
OpEntryPoint(h) == "EP1"
isCompressedType(h) == h = "h2"

VARIABLES
    timer,                  \* this.timer is set
    activeTimers,           \* intervals created by setInterval and not cleared
    lastMode,               \* the mode last requested (constructor or setBundlingMode)
    prevModes,              \* the two modes requested before that, oldest first
    unWatch,                \* this.unWatch is set
    activeSubs,             \* watchBlocks subscriptions not yet unwatched
    currentlyHandlingBlock, \* the reentrancy flag
    handlersInFlight,       \* handleBlock invocations past the guard, not yet settled
    hbPc,                   \* where the handler past the guard is suspended
    hbTasks,                \* pending awaits started by handleBlock
    bt,                     \* the bundle()/bundleNow() invocations in flight
    outstanding,            \* mempool: ops waiting to be bundled
    processing,             \* mempool: ops handed out by process()
    submitted,              \* mempool: submitted entries <<hash, transaction info>>
    seen,                   \* ops that entered the mempool once
    manualOps,              \* ops added while the requested mode was manual, not yet bundled by bundleNow
    monitor,                \* Monitor: status per op
    txs,                    \* Transaction Infos created by the Executor
    chain,                  \* bundle status of each broadcast on the chain
    minedAt,                \* block number of each broadcast once mined or reverted (0: pending)
    now,                    \* index into Times of the wall clock
    monitorTx,              \* Monitor: transactionHash recorded with the status (0: null)
    events,                 \* EventManager: the events emitted per op, in order
    walletProcessed,        \* executor.markWalletProcessed calls per Transaction Info
    watchers,               \* frontrun watchers created by checkFrontrun
    blockNumber,            \* head of the chain
    bundleNowResult,        \* what a bundleNow() call settling in this step gives its caller
    receiptLogs,            \* chain: the logs of the transaction receipt a lookup reads
    userOperationReceipt    \* what the last getUserOperationReceipt call gave its caller

modeVars == <<timer, activeTimers, lastMode, prevModes>>
subVars == <<unWatch, activeSubs>>
hbVars == <<currentlyHandlingBlock, handlersInFlight, hbPc, hbTasks>>
poolVars == <<outstanding, processing, submitted, seen, manualOps>>
txVars == <<txs, chain, minedAt>>
logVars == <<monitorTx, events, walletProcessed>>
watchVars == <<watchers, blockNumber>>
receiptVars == <<receiptLogs, userOperationReceipt>>
\* Everything but what is handed to a caller.
stateVars == <<modeVars, subVars, hbVars, bt, poolVars, monitor, txVars, now, logVars,
               watchVars>>
vars == <<timer, activeTimers, lastMode, prevModes, unWatch, activeSubs, currentlyHandlingBlock,
          handlersInFlight, hbPc, hbTasks, bt, outstanding, processing,
          submitted, seen, manualOps, monitor, txs, chain, minedAt, now,
          monitorTx, events, walletProcessed, watchers, blockNumber, bundleNowResult,
          receiptLogs, userOperationReceipt>>

\* No getUserOperationReceipt call has settled.
NoReceipt == [status |-> "none"]

\* No bundleNow() call settles.
NoResult == [status |-> "none", error |-> "", txHashes |-> <<>>]

IdleTick == [kind |-> "idle", pc |-> "idle", batch |-> {}, opsToBundle |-> {}, tasks |-> {}]

(* ------------------------------------------------------------ constructor *)
\* constructor: the timer is started only in auto mode.
InitManager ==
    /\ \E bundleMode \in Modes :
        /\ lastMode = bundleMode
        /\ prevModes = <<"none", "none">>
        /\ timer = (bundleMode = "auto")
        /\ activeTimers = IF bundleMode = "auto" THEN 1 ELSE 0
    /\ unWatch = FALSE
    /\ activeSubs = 0
    /\ currentlyHandlingBlock = FALSE
    /\ handlersInFlight = 0
    /\ hbPc = "idle"
    /\ hbTasks = {}
    /\ bt = [b \in Slots |-> IdleTick]
    /\ outstanding = {}
    /\ processing = {}
    /\ submitted = {}
    /\ seen = {}
    /\ manualOps = {}
    /\ monitor = [h \in Ops |-> "none"]
    /\ txs = <<>>
    /\ chain = <<>>
    /\ minedAt = <<>>
    /\ now = 1
    /\ monitorTx = [h \in Ops |-> 0]
    /\ events = [h \in Ops |-> <<>>]
    /\ walletProcessed = [t \in TxIds |-> 0]
    /\ watchers = <<>>
    /\ blockNumber = 0
    /\ bundleNowResult = NoResult
    /\ userOperationReceipt = NoReceipt

\* The chain holds no receipt yet.
Init == InitManager /\ receiptLogs = <<>>

(* -------------------------------------------------------- Mode Controller *)
\* setBundlingMode without the "&& !this.timer" test of line 120.
SetBundlingModeTimerNoTest(bundleMode, t, n) ==
    IF bundleMode = "auto" THEN <<TRUE, n + 1>>
    ELSE IF bundleMode = "manual" /\ t THEN <<FALSE, n - 1>>
    ELSE <<t, n>>

\* setBundlingMode: the pair <<this.timer set, intervals running>> after the call.
SetBundlingModeTimer(bundleMode, t, n) ==
    IF bundleMode = "auto" /\ ~t THEN <<TRUE, n + 1>>
    ELSE IF bundleMode = "manual" /\ t THEN <<FALSE, n - 1>>
    ELSE <<t, n>>

setBundlingMode(bundleMode) ==
    LET r == SetBundlingModeTimer(bundleMode, timer, activeTimers) IN
    /\ r[2] <= MaxTimers
    /\ timer' = r[1]
    /\ activeTimers' = r[2]
    /\ lastMode' = bundleMode
    /\ prevModes' = <<prevModes[2], lastMode>>
    /\ manualOps' = IF bundleMode = "auto" THEN {} ELSE manualOps
    /\ UNCHANGED <<subVars, hbVars, bt, outstanding, processing, submitted, seen,
                   monitor, txVars, now, logVars, watchVars, receiptVars>>
    /\ bundleNowResult' = NoResult

(* ----------------------------------------------------- Block Subscription *)
\* sendToExecutor without the startWatchingBlocks call of line 235.
StartWatchingNotCalled(u, n) == <<u, n>>

\* startWatchingBlocks without the early return of lines 340-342.
StartWatchingNoReturn(u, n) == <<TRUE, n + 1>>

\* startWatchingBlocks: <<this.unWatch set, subscriptions active>> after the call.
StartWatching(u, n) == IF u THEN <<u, n>> ELSE <<TRUE, n + 1>>

\* stopWatchingBlocks without line 372: the handle is not cleared.
StopWatchingKeepsHandle(u, n) == IF u THEN <<u, n - 1>> ELSE <<u, n>>

\* stopWatchingBlocks: unsubscribes and clears the handle, if there is one.
StopWatching(u, n) == IF u THEN <<FALSE, n - 1>> ELSE <<u, n>>

startWatchingBlocks ==
    LET r == StartWatching(unWatch, activeSubs) IN
    /\ unWatch' = r[1]
    /\ activeSubs' = r[2]
    /\ UNCHANGED <<modeVars, hbVars, bt, poolVars, monitor, txVars, now, logVars, watchVars, receiptVars>>
    /\ bundleNowResult' = NoResult

stopWatchingBlocks ==
    LET r == StopWatching(unWatch, activeSubs) IN
    /\ unWatch' = r[1]
    /\ activeSubs' = r[2]
    /\ UNCHANGED <<modeVars, hbVars, bt, poolVars, monitor, txVars, now, logVars, watchVars, receiptVars>>
    /\ bundleNowResult' = NoResult

(* ------------------------------------------------ mempool (collaborator) *)
\* dumpSubmittedOps / getTransactionsFromUserOperationEntries
SubmittedOps(sub) == {e[1] : e \in sub}
getTransactionsFromUserOperationEntries(sub) == {e[2] : e \in sub}

\* process(maxGas, minCount): the batches the mempool may hand out.
Process(out) == IF out = {} THEN {{}} ELSE (SUBSET out) \ {{}}

\* markSubmitted: an op in processing becomes a submitted entry bound to tx.
markSubmitted(sub, proc, hs, tx) == sub \cup {<<h, tx>> : h \in hs \cap proc}

removeSubmitted(sub, hs) == {e \in sub : e[1] \notin hs}

\* replaceSubmitted: an existing submitted entry is rebound to newTx.
replaceSubmitted(sub, hs, newTx) ==
    {e \in sub : e[1] \notin hs} \cup {<<h, newTx>> : h \in hs \cap SubmittedOps(sub)}

\* An op reaches the mempool (RPC ingress): each hash once.
AddOp(h) ==
    /\ h \notin seen
    /\ seen' = seen \cup {h}
    /\ outstanding' = outstanding \cup {h}
    /\ manualOps' = IF lastMode = "manual" THEN manualOps \cup {h} ELSE manualOps
    /\ UNCHANGED <<processing, submitted, modeVars, subVars, hbVars, bt, monitor, txVars, now, logVars, watchVars, receiptVars>>
    /\ bundleNowResult' = NoResult

(* ------------------------------------------------------------ Executor *)
\* A Transaction Info as the Executor returns it from bundle/bundleCompressed.
NewTxWith(ops, fee, time, gas, nonce) ==
    [userOperationInfos |-> ops, previousTransactionHashes |-> <<>>, fee |-> fee,
     lastReplaced |-> time, timesPotentiallyIncluded |-> 0, gas |-> gas, nonce |-> nonce]

\* transactionRequest.gas and .nonce of a broadcast where nothing depends on them.
DefaultGas == 1000
DefaultNonce == 7
NewTx(ops, fee, time) == NewTxWith(ops, fee, time, DefaultGas, DefaultNonce)

BundleOutcomes == {"success", "failure", "resubmit", "filtered"}

(* -------------------------------------------------------- Bundling Loop *)
FreeSlot(b) == bt[b].kind = "idle" /\ \A c \in Slots : c < b => bt[c].kind # "idle"

\* sendToExecutor, up to its first await: the ops of one entry point, split by kind.
Uncompressed(ops) == {h \in ops : ~isCompressedType(h)}
Compressed(ops) == {h \in ops : isCompressedType(h)}
SendTask(ops) ==
    [ops |-> ops,
     stage |-> IF Uncompressed(ops) # {} THEN "bundle" ELSE "bundleCompressed",
     results |-> {}]

\* bundle()/bundleNow(): one sendToExecutor call per batch and configured entry point
\* that has ops in the batch.
SendTasks(batches) ==
    {SendTask({h \in batch : OpEntryPoint(h) = ep}) :
        <<batch, ep>> \in {x \in batches \X entryPoints :
                              \E h \in x[1] : OpEntryPoint(h) = x[2]}}

\* A call of mempool.process: the mempool picks the batch and moves it to processing;
\* the caller gets it when the await returns.
CallProcess(batch) ==
    /\ batch \in Process(outstanding)
    /\ outstanding' = outstanding \ batch
    /\ processing' = processing \cup batch

\* The interval fires: the callback calls bundle(), which calls mempool.process.
\* The guard is the timer's own: setInterval does not look at earlier callbacks.
TimerFire(b) ==
    /\ activeTimers > 0
    /\ FreeSlot(b)
    /\ \E batch \in SUBSET outstanding :
        /\ CallProcess(batch)
        /\ bt' = [bt EXCEPT ![b] = [kind |-> "bundle", pc |-> "process", batch |-> batch,
                                    opsToBundle |-> {}, tasks |-> {}]]
    /\ UNCHANGED <<submitted, seen, manualOps, modeVars, subVars, hbVars, monitor, txVars, now, logVars, watchVars, receiptVars>>
    /\ bundleNowResult' = NoResult

\* bundleNow() is called (RPC): it calls mempool.process.
BundleNowCall(b) ==
    /\ FreeSlot(b)
    /\ \E batch \in SUBSET outstanding :
        /\ CallProcess(batch)
        /\ manualOps' = manualOps \ batch
        /\ bt' = [bt EXCEPT ![b] = [kind |-> "bundleNow", pc |-> "process", batch |-> batch,
                                    opsToBundle |-> {}, tasks |-> {}]]
    /\ UNCHANGED <<submitted, seen, modeVars, subVars, hbVars, monitor, txVars, now, logVars, watchVars, receiptVars>>
    /\ bundleNowResult' = NoResult

\* bundle() lines 290-337: mempool.process returned; call it again after a non-empty
\* batch, else return (nothing gathered) or dispatch every batch.
BundleProcess(b) ==
    /\ bt[b].kind = "bundle" /\ bt[b].pc = "process"
    /\ IF bt[b].batch # {}
          THEN \E batch \in SUBSET outstanding :
                /\ CallProcess(batch)
                /\ bt' = [bt EXCEPT ![b].opsToBundle = @ \cup {bt[b].batch},
                                    ![b].batch = batch]
          ELSE /\ bt' = [bt EXCEPT ![b] =
                      IF bt[b].opsToBundle = {} THEN IdleTick
                      ELSE [@ EXCEPT !.pc = "send", !.tasks = SendTasks(bt[b].opsToBundle)]]
               /\ UNCHANGED <<outstanding, processing>>
    /\ UNCHANGED <<submitted, seen, manualOps, modeVars, subVars, hbVars, monitor, txVars, now, logVars, watchVars, receiptVars>>
    /\ bundleNowResult' = NoResult

\* bundleNow() rejects with an Error / returns its list of transaction hashes.
Rejected(message) == [status |-> "rejected", error |-> message, txHashes |-> <<>>]
Returned(txHashes) == [status |-> "returned", error |-> "", txHashes |-> txHashes]

\* bundleNow() without the test of lines 132-134.
BundleNowDispatchUnchecked(tick) ==
    [tick EXCEPT !.pc = "send", !.opsToBundle = {tick.batch}, !.batch = {},
                 !.tasks = SendTasks({tick.batch})]

\* bundleNow() lines 132-165: the invocation after mempool.process returned.
BundleNowDispatch(tick) ==
    IF tick.batch = {} THEN IdleTick
    ELSE [tick EXCEPT !.pc = "send", !.opsToBundle = {tick.batch}, !.batch = {},
                      !.tasks = SendTasks({tick.batch})]

\* bundleNow() lines 131-165: mempool.process returned; throw "no ops to bundle" or
\* dispatch the batch.
BundleNowProcess(b) ==
    /\ bt[b].kind = "bundleNow" /\ bt[b].pc = "process"
    /\ bt' = [bt EXCEPT ![b] = BundleNowDispatch(bt[b])]
    /\ bundleNowResult' = IF bt[b].batch = {} THEN Rejected("no ops to bundle")
                                              ELSE NoResult
    /\ UNCHANGED <<modeVars, subVars, hbVars, poolVars, monitor, txVars, now, logVars, watchVars,
                   receiptVars>>

\* sendToExecutor lines 217-285: every result applied to mempool and monitor.
SendResultsSubmitted(sub, proc, results) ==
    sub \cup {<<r.op, r.tx>> : r \in {x \in results : x.status = "success" /\ x.op \in proc}}

SendResultsProcessing(proc, results) == proc \ {r.op : r \in results}

\* The resubmit branch without the mempool.add of lines 277-280.
SendResultsOutstandingNoAdd(out, results) == out

SendResultsOutstanding(out, results) ==
    out \cup {r.op : r \in {x \in results : x.status = "resubmit"}}

SendResultsMonitor(mon, results) ==
    [h \in Ops |->
        IF \E r \in results : r.op = h /\ r.status = "success" THEN "submitted"
        ELSE IF \E r \in results : r.op = h /\ r.status = "failure" THEN "rejected"
        ELSE mon[h]]

SendResultsMonitorTx(mtx, results) ==
    [h \in Ops |->
        IF \E r \in results : r.op = h /\ r.status = "success"
            THEN (CHOOSE r \in results : r.op = h /\ r.status = "success").tx
        ELSE IF \E r \in results : r.op = h /\ r.status = "failure" THEN 0
        ELSE mtx[h]]

SendResultsEvents(ev, results) ==
    [h \in Ops |->
        IF \E r \in results : r.op = h /\ r.status = "failure"
            THEN Append(ev[h], "dropped")
            ELSE ev[h]]

\* sendToExecutor lines 217, 234, 284: txHash is overwritten by every success result
\* in the order of bundles.flat(), the uncompressed bundle first (0: undefined).
SendTxHash(results) ==
    LET succ == {r \in results : r.status = "success"}
        last == {r \in succ : isCompressedType(r.op)}
    IN IF last # {} THEN (CHOOSE r \in last : TRUE).tx
       ELSE IF succ # {} THEN (CHOOSE r \in succ : TRUE).tx
       ELSE 0

\* bundleNow() lines 151-167 for the one configured entry point.
BundleNowReturn(txHash) ==
    IF txHash = 0 THEN Rejected("no tx hash") ELSE Returned(<<txHash>>)

\* The ops sendToExecutor hands to the Executor call it is suspended in.
StageOps(task) ==
    IF task.stage = "bundle" THEN Uncompressed(task.ops) ELSE Compressed(task.ops)

\* sendToExecutor: executor.bundle or executor.bundleCompressed returned outcome o
\* (per op; "filtered" ops are left out of the result list) and, if an op succeeded,
\* a Transaction Info broadcast with gas price fee.
ExecutorReturnWith(b, task, o, fee, gas, nonce) ==
    /\ bt[b].pc = "send" /\ task \in bt[b].tasks
    /\ LET cur == StageOps(task)
           id == Len(txs) + 1
           succ == {h \in cur : o[h] = "success"}
           results == task.results \cup
               {[op |-> h, status |-> o[h], tx |-> IF o[h] = "success" THEN id ELSE 0] :
                   h \in {x \in cur : o[x] # "filtered"}}
           more == task.stage = "bundle" /\ Compressed(task.ops) # {}
           rest == bt[b].tasks \ {task}
       IN
       /\ succ # {} => id <= MaxTx
       /\ succ = {} => fee = <<1, 1>> /\ gas = DefaultGas /\ nonce = DefaultNonce
       /\ IF succ # {}
             THEN /\ txs' = Append(txs, NewTxWith(succ, fee, Times[now], gas, nonce))
                  /\ chain' = Append(chain, "not_found")
                  /\ minedAt' = Append(minedAt, 0)
             ELSE UNCHANGED txVars
       /\ IF more
             THEN /\ bt' = [bt EXCEPT ![b].tasks = rest \cup
                         {[task EXCEPT !.stage = "bundleCompressed", !.results = results]}]
                  /\ bundleNowResult' = NoResult
                  /\ UNCHANGED <<poolVars, monitor, subVars, monitorTx, events>>
             ELSE /\ bt' = [bt EXCEPT ![b] =
                         IF rest = {} THEN IdleTick ELSE [@ EXCEPT !.tasks = rest]]
                  /\ bundleNowResult' = IF bt[b].kind = "bundleNow"
                                            THEN BundleNowReturn(SendTxHash(results))
                                            ELSE NoResult
                  /\ submitted' = SendResultsSubmitted(submitted, processing, results)
                  /\ processing' = SendResultsProcessing(processing, results)
                  /\ outstanding' = SendResultsOutstanding(outstanding, results)
                  /\ monitor' = SendResultsMonitor(monitor, results)
                  /\ monitorTx' = SendResultsMonitorTx(monitorTx, results)
                  /\ events' = SendResultsEvents(events, results)
                  /\ LET w == IF \E r \in results : r.status = "success"
                              THEN StartWatching(unWatch, activeSubs)
                              ELSE <<unWatch, activeSubs>>
                     IN unWatch' = w[1] /\ activeSubs' = w[2]
                  /\ UNCHANGED <<seen, manualOps>>
    /\ UNCHANGED <<modeVars, hbVars, now, walletProcessed, watchVars, receiptVars>>

\* The same with the transaction request the Executor builds left at its defaults.
ExecutorReturn(b, task, o, fee) ==
    ExecutorReturnWith(b, task, o, fee, DefaultGas, DefaultNonce)

(* ------------------------------------------------------------------ chain *)
SeqToSet(q) == {q[i] : i \in 1..Len(q)}

\* Broadcasts that compete for the same executor nonce as t.
Lineage(t) ==
    {u \in 1..Len(txs) : u \in SeqToSet(txs[t].previousTransactionHashes)
                          \/ t \in SeqToSet(txs[u].previousTransactionHashes)}

\* The chain mines (or reverts) a broadcast that was pending.
ChainResolve(t, st) ==
    /\ t \in 1..Len(txs)
    /\ chain[t] = "not_found"
    /\ \A u \in Lineage(t) : chain[u] \in {"not_found", "reverted_AA95"}
    /\ chain' = [chain EXCEPT ![t] = st]
    /\ minedAt' = [minedAt EXCEPT ![t] = blockNumber]
    /\ UNCHANGED <<txs, modeVars, subVars, hbVars, bt, poolVars, monitor, now, logVars, watchVars, receiptVars>>
    /\ bundleNowResult' = NoResult

\* Wall-clock time passes (only differences to a lastReplaced are ever read, so the
\* clock is left at its origin until the first broadcast exists).
AdvanceTime ==
    /\ Len(txs) > 0
    /\ now < Len(Times)
    /\ now' = now + 1
    /\ UNCHANGED <<modeVars, subVars, hbVars, bt, poolVars, monitor, txVars, logVars, watchVars, receiptVars>>
    /\ bundleNowResult' = NoResult

(* ---------------------------------------------------------- Block Handler *)
HbTask(t, kind, reason) == [tx |-> t, kind |-> kind, reason |-> reason]

\* handleBlock without the guard of lines 855-857.
HandleBlockNoGuard == FALSE

\* handleBlock lines 855-857: the reentrancy guard.
HandleBlockGuard == currentlyHandlingBlock

\* refreshUserOperationStatuses: one refreshTransactionStatus per distinct
\* Transaction Info of the submitted ops of a configured entry point.
RefreshTasks(sub) ==
    {HbTask(t, "status", "") :
        t \in getTransactionsFromUserOperationEntries(
                  {e \in sub : OpEntryPoint(e[1]) \in entryPoints})}

\* The comparison of lines 887-890 made strict: a fee equal to the oracle's is replaced.
NeedsGasPriceReplacementOrEqual(info, gasPriceParameters) ==
    ~(info.fee[1] > gasPriceParameters[1] /\ info.fee[2] > gasPriceParameters[2])

\* handleBlock lines 880-897: who is replaced for its gas price.
NeedsGasPriceReplacement(info, gasPriceParameters) ==
    ~(info.fee[1] >= gasPriceParameters[1] /\ info.fee[2] >= gasPriceParameters[2])

GasPriceTasks(sub, tx, gasPriceParameters) ==
    {HbTask(t, "replace", "gas_price") :
        t \in {u \in getTransactionsFromUserOperationEntries(sub) :
                  NeedsGasPriceReplacement(tx[u], gasPriceParameters)}}

\* The test of line 905 with "<=": exactly five minutes do not count as stuck.
IsStuckAfter(info, time) == ~(time - info.lastReplaced <= StuckTimeout)

\* handleBlock lines 899-911: who is replaced for being stuck.
IsStuck(info, time) == ~(time - info.lastReplaced < StuckTimeout)

StuckTasks(sub, tx, time) ==
    {HbTask(t, "replace", "stuck") :
        t \in {u \in getTransactionsFromUserOperationEntries(sub) : IsStuck(tx[u], time)}}

HbDone == [pc |-> "idle", tasks |-> {}, done |-> TRUE]

\* Where handleBlock stands once an awaited task has settled, given what is left.
HbNext(pc, rest, sub, tx, time) ==
    IF pc = "rejected" \/ rest # {} THEN [pc |-> pc, tasks |-> rest, done |-> FALSE]
    ELSE IF pc = "refresh" THEN [pc |-> "oracle", tasks |-> {}, done |-> FALSE]
    ELSE IF pc = "gas" /\ StuckTasks(sub, tx, time) # {}
        THEN [pc |-> "stuck", tasks |-> StuckTasks(sub, tx, time), done |-> FALSE]
    ELSE HbDone

\* handleBlock line 913 (and 866): the flag after the step.
FlagAfter(done, flag) == IF done THEN FALSE ELSE flag

HbSettle(n) ==
    /\ hbPc' = n.pc
    /\ hbTasks' = n.tasks
    /\ currentlyHandlingBlock' = FlagAfter(n.done, currentlyHandlingBlock)
    /\ handlersInFlight' = IF n.done THEN handlersInFlight - 1 ELSE handlersInFlight

\* An awaited call rejects: Promise.all rejects, handleBlock rejects at once; nothing
\* catches it and line 913 is not reached.  The other tasks keep running.
HbThrow(rest) ==
    /\ hbPc' = "rejected"
    /\ hbTasks' = rest
    /\ handlersInFlight' = IF hbPc = "rejected" THEN handlersInFlight ELSE handlersInFlight - 1
    /\ UNCHANGED currentlyHandlingBlock

\* A block notification of the active subscription calls handleBlock (lines 854-871).
handleBlock ==
    /\ unWatch
    /\ IF HandleBlockGuard
          THEN UNCHANGED <<hbVars, subVars>>
       ELSE IF submitted = {}
          THEN /\ LET r == StopWatching(unWatch, activeSubs) IN
                    unWatch' = r[1] /\ activeSubs' = r[2]
               /\ currentlyHandlingBlock' = FALSE
               /\ UNCHANGED <<handlersInFlight, hbPc, hbTasks>>
       ELSE /\ currentlyHandlingBlock' = TRUE
            /\ handlersInFlight' = handlersInFlight + 1
            /\ hbPc' = IF RefreshTasks(submitted) = {} THEN "oracle" ELSE "refresh"
            /\ hbTasks' = RefreshTasks(submitted)
            /\ UNCHANGED subVars
    /\ UNCHANGED <<modeVars, bt, poolVars, monitor, txVars, now, logVars, watchVars, receiptVars>>
    /\ bundleNowResult' = NoResult

\* refreshTransactionStatus lines 388-413: the candidate hashes in order, and the
\* finalized one: the first included, else the first reverted, else none (0).
TxHashesToCheck(t, tx) == <<t>> \o tx[t].previousTransactionHashes

IsReverted(st) == st \in {"reverted_AA95", "reverted_AA25", "reverted"}

\* Array.find: the first element of q whose status satisfies the test, else 0.
FirstIn(q, ch, sts) ==
    IF \E i \in 1..Len(q) : ch[q[i]] \in sts
        THEN q[CHOOSE i \in 1..Len(q) :
                  ch[q[i]] \in sts /\ \A j \in 1..(i - 1) : ch[q[j]] \notin sts]
        ELSE 0

\* Taking the first candidate that has settled, included or not.
FinalizedTransactionFirstSettled(t, tx, ch) ==
    FirstIn(TxHashesToCheck(t, tx), ch, BundleStatuses \ {"not_found"})

FinalizedTransaction(t, tx, ch) ==
    LET q == TxHashesToCheck(t, tx)
        mined == FirstIn(q, ch, {"included"})
        reverted == FirstIn(q, ch, {st \in BundleStatuses : IsReverted(st)})
    IN IF mined # 0 THEN mined ELSE reverted

\* The AA95 branch without the removeSubmitted calls of lines 506-508.
RefreshSubmittedKeepsAA95(sub, info, st) ==
    IF st \in {"included", "reverted"}
        THEN removeSubmitted(sub, info.userOperationInfos)
        ELSE sub

\* The branch of lines 448-546 taken for the finalized status.
RefreshSubmitted(sub, info, st) ==
    IF st \in {"included", "reverted_AA95", "reverted"}
        THEN removeSubmitted(sub, info.userOperationInfos)
        ELSE sub

RefreshMonitor(mon, info, st) ==
    [h \in Ops |->
        IF h \in info.userOperationInfos /\ st = "included" THEN "included"
        ELSE IF h \in info.userOperationInfos /\ st = "reverted" THEN "rejected"
        ELSE mon[h]]

\* Lines 496-504: gas and nonce of the Transaction Info on the AA95 branch.
\* The division of line 503 rounding up.
BumpGasRoundedUp(gas) == (gas * aa95ResubmitMultiplier + 99) \div 100

BumpGas(gas) == (gas * aa95ResubmitMultiplier) \div 100
BumpNonce(nonce) == nonce + 1

RefreshTxs(tx, t, st) ==
    IF st = "reverted_AA95"
        THEN [tx EXCEPT ![t].gas = BumpGas(@), ![t].nonce = BumpNonce(@)]
        ELSE tx

\* Lines 468-481 and 531-535: the event emitted for each op of the Transaction Info.
OpStatuses == {"succesful", "reverted"}

\* The included branch emitting includedOnChain whatever the op's own status.
RefreshEventIgnoringOpStatus(st, opStatus) ==
    IF st = "included" THEN "includedOnChain" ELSE "failedOnChain"

RefreshEvent(st, opStatus) ==
    IF st = "included"
        THEN IF opStatus = "succesful" THEN "includedOnChain" ELSE "executionRevertedOnChain"
        ELSE "failedOnChain"

RefreshEvents(ev, info, st, details) ==
    [h \in Ops |->
        IF h \in info.userOperationInfos /\ st \in {"included", "reverted"}
            THEN Append(ev[h], RefreshEvent(st, details[h]))
            ELSE ev[h]]

\* The transactionHash recorded with the monitor status: the finalized hash f.
RefreshMonitorTx(mtx, info, st, f) ==
    [h \in Ops |->
        IF h \in info.userOperationInfos /\ st \in {"included", "reverted"} THEN f ELSE mtx[h]]

\* Lines 495 and 545: executor.markWalletProcessed(transactionInfo.executor).
RefreshWallet(wp, t, st) ==
    IF st \in {"included", "reverted"} THEN [wp EXCEPT ![t] = @ + 1] ELSE wp

\* checkFrontrun lines 549-558: a block-number subscription for one op, anchored at the
\* block of the reverted transaction; nothing has been delivered to it yet.
NewWatcher(h, f, anchor) ==
    [op |-> h, tx |-> f, anchor |-> anchor, seen |-> 0 - 1, pending |-> 0, fired |-> 0,
     active |-> TRUE]

OpOrder == <<"h1", "h2">>
OpsInOrder(ops) == SelectSeq(OpOrder, LAMBDA h : h \in ops)

\* Lines 510-522: one checkFrontrun call per op of the Transaction Info.
RefreshWatchers(ws, info, st, f, anchor) ==
    IF st = "reverted_AA25"
        THEN ws \o [i \in 1..Cardinality(info.userOperationInfos) |->
                       NewWatcher(OpsInOrder(info.userOperationInfos)[i], f, anchor)]
        ELSE ws

\* refreshTransactionStatus: the bundle statuses of the candidates have arrived; details
\* is the per-op status the chain reports for an included bundle.
StatusResultWith(task, details) ==
    /\ task \in hbTasks /\ task.kind = "status"
    /\ LET t == task.tx
           f == FinalizedTransaction(t, txs, chain)
           st == IF f = 0 THEN "not_found" ELSE chain[f]
           anchor == IF f = 0 THEN 0 ELSE minedAt[f]
           rest == (hbTasks \ {task}) \cup
                   IF st = "reverted_AA95" THEN {HbTask(t, "replace", "AA95")} ELSE {}
       IN /\ Len(RefreshWatchers(watchers, txs[t], st, f, anchor)) <= MaxWatchers
          /\ txs' = RefreshTxs(txs, t, st)
          /\ submitted' = RefreshSubmitted(submitted, txs[t], st)
          /\ monitor' = RefreshMonitor(monitor, txs[t], st)
          /\ monitorTx' = RefreshMonitorTx(monitorTx, txs[t], st, f)
          /\ events' = RefreshEvents(events, txs[t], st, details)
          /\ walletProcessed' = RefreshWallet(walletProcessed, t, st)
          /\ watchers' = RefreshWatchers(watchers, txs[t], st, f, anchor)
          /\ HbSettle(HbNext(hbPc, rest, submitted', txs', Times[now]))
    /\ UNCHANGED <<outstanding, processing, seen, manualOps, modeVars, subVars, bt, chain,
                   minedAt, now, blockNumber, receiptVars>>
    /\ bundleNowResult' = NoResult

\* The same for a bundle whose ops all executed.
StatusResult(task) == StatusResultWith(task, [h \in Ops |-> "succesful"])

\* refreshTransactionStatus: a bundle status lookup rejects.
StatusThrow(task) ==
    /\ task \in hbTasks /\ task.kind = "status"
    /\ HbThrow(hbTasks \ {task})
    /\ UNCHANGED <<modeVars, subVars, bt, poolVars, monitor, txVars, now, logVars, watchVars, receiptVars>>
    /\ bundleNowResult' = NoResult

\* handleBlock lines 874-897: the oracle answers; the gas-price pass starts (and, with
\* nothing to replace, the stuck pass right after it).
OracleResult(gasPriceParameters) ==
    /\ hbPc = "oracle"
    /\ LET gp == GasPriceTasks(submitted, txs, gasPriceParameters) IN
       HbSettle(IF gp # {} THEN [pc |-> "gas", tasks |-> gp, done |-> FALSE]
                ELSE HbNext("gas", {}, submitted, txs, Times[now]))
    /\ UNCHANGED <<modeVars, subVars, bt, poolVars, monitor, txVars, now, logVars, watchVars, receiptVars>>
    /\ bundleNowResult' = NoResult

\* handleBlock line 874: gasPriceManager.getGasPrice rejects.
OracleThrow ==
    /\ hbPc = "oracle"
    /\ HbThrow(hbTasks)
    /\ UNCHANGED <<modeVars, subVars, bt, poolVars, monitor, txVars, now, logVars, watchVars, receiptVars>>
    /\ bundleNowResult' = NoResult

(* ------------------------------------------------------ Replacement Policy *)
ReplaceResults == {"failed", "potentially_already_included", "replaced"}

\* replaceTransaction binding matching ops to newTxInfo without releasing the old entry.
ApplyReplacedKeepsOld(sub, info, newOps, newTx) ==
    sub \cup {<<h, newTx>> : h \in info.userOperationInfos \cap newOps}

\* replaceTransaction lines 962-990: matching ops are rebound, missing ops removed.
ApplyReplaced(sub, info, newOps, newTx) ==
    LET missingOps == {h \in info.userOperationInfos : h \notin newOps}
        matchingOps == {h \in info.userOperationInfos : h \in newOps}
    IN removeSubmitted(replaceSubmitted(sub, matchingOps, newTx), missingOps)

\* The failed branch without the removeSubmitted calls of lines 929-931.
ApplyNotReplacedFailedKeeps(sub, info, res, times) ==
    IF times >= MaxTimesPotentiallyIncluded
        THEN removeSubmitted(sub, info.userOperationInfos)
        ELSE sub

\* The removal of line 947 one result early.
ApplyNotReplacedAtTwo(sub, info, res, times) ==
    IF res = "failed" \/ times >= 2
        THEN removeSubmitted(sub, info.userOperationInfos)
        ELSE sub

\* replaceTransaction lines 928-960: the submitted set after failed / potentially
\* already included (times is the counter after its increment).
ApplyNotReplaced(sub, info, res, times) ==
    IF res = "failed" \/ times >= MaxTimesPotentiallyIncluded
        THEN removeSubmitted(sub, info.userOperationInfos)
        ELSE sub

\* replaceTransaction lines 947-951: the wallet is marked processed with the removal.
ReplaceWallet(wp, t, times) ==
    IF times >= MaxTimesPotentiallyIncluded THEN [wp EXCEPT ![t] = @ + 1] ELSE wp

\* replaceTransaction: executor.replaceTransaction returned.
ReplaceResult(task, res) ==
    /\ task \in hbTasks /\ task.kind = "replace"
    /\ LET t == task.tx
           id == Len(txs) + 1
           rest == hbTasks \ {task}
       IN
       /\ CASE res = "failed" ->
                 /\ submitted' = ApplyNotReplaced(submitted, txs[t], res, 0)
                 /\ UNCHANGED <<txVars, walletProcessed>>
            [] res = "potentially_already_included" ->
                 /\ txs' = [txs EXCEPT ![t].timesPotentiallyIncluded = @ + 1]
                 /\ submitted' = ApplyNotReplaced(submitted, txs[t], res,
                                                  txs'[t].timesPotentiallyIncluded)
                 /\ walletProcessed' =
                        ReplaceWallet(walletProcessed, t, txs'[t].timesPotentiallyIncluded)
                 /\ UNCHANGED <<chain, minedAt>>
            [] res = "replaced" ->
                 /\ id <= MaxTx
                 /\ \E newOps \in (SUBSET txs[t].userOperationInfos) \ {{}},
                       fee \in GasPrices :
                     /\ txs' = Append(txs,
                            [userOperationInfos |-> newOps,
                             previousTransactionHashes |->
                                 <<t>> \o txs[t].previousTransactionHashes,
                             fee |-> fee, lastReplaced |-> Times[now],
                             timesPotentiallyIncluded |-> 0,
                             gas |-> txs[t].gas, nonce |-> txs[t].nonce])
                     /\ chain' = Append(chain, "not_found")
                     /\ minedAt' = Append(minedAt, 0)
                     /\ UNCHANGED walletProcessed
                     /\ submitted' = ApplyReplaced(submitted, txs[t], newOps, id)
       /\ HbSettle(HbNext(hbPc, rest, submitted', txs', Times[now]))
    /\ UNCHANGED <<outstanding, processing, seen, manualOps, modeVars, subVars, bt,
                   monitor, now, monitorTx, events, watchVars, receiptVars>>
    /\ bundleNowResult' = NoResult

\* replaceTransaction lines 921-927: executor.replaceTransaction rejects; the finally
\* block counts it and the error propagates.
ReplaceThrow(task) ==
    /\ task \in hbTasks /\ task.kind = "replace"
    /\ HbThrow(hbTasks \ {task})
    /\ UNCHANGED <<modeVars, subVars, bt, poolVars, monitor, txVars, now, logVars, watchVars, receiptVars>>
    /\ bundleNowResult' = NoResult

(* -------------------------------------------------------- Frontrun Watcher *)
\* The transaction hash of a receipt found for an op that somebody else included.
ForeignHash == MaxTx + 1

\* The chain grows by a block.
NewBlock ==
    /\ blockNumber < MaxBlock
    /\ blockNumber' = blockNumber + 1
    /\ UNCHANGED <<modeVars, subVars, hbVars, bt, poolVars, monitor, txVars, now, logVars,
                   watchers, receiptVars>>
    /\ bundleNowResult' = NoResult

\* checkFrontrun lines 559-562: onBlockNumber(currentBlockNumber) of watcher i; past
\* the anchor by more than one block it starts a receipt lookup and is suspended in it.
\* The test of line 560 one block early.
WatcherLooksUpEarly(currentBlockNumber, anchor) == currentBlockNumber > anchor

WatcherLooksUp(currentBlockNumber, anchor) == currentBlockNumber > anchor + 1

WatcherNotify(i) ==
    /\ i \in 1..Len(watchers)
    /\ watchers[i].active
    /\ blockNumber > watchers[i].seen
    /\ watchers' = [watchers EXCEPT
            ![i].seen = blockNumber,
            ![i].pending = IF WatcherLooksUp(blockNumber, watchers[i].anchor)
                              THEN @ + 1 ELSE @]
    /\ UNCHANGED <<modeVars, subVars, hbVars, bt, poolVars, monitor, txVars, now, logVars,
                   blockNumber, receiptVars>>
    /\ bundleNowResult' = NoResult

\* checkFrontrun lines 564-613: a receipt lookup of watcher i returns (found or null);
\* status and event are recorded and the subscription is cancelled.
WatcherReceipt(i, found) ==
    /\ i \in 1..Len(watchers)
    /\ watchers[i].pending > 0
    /\ LET w == watchers[i] IN
        /\ monitor' = [monitor EXCEPT ![w.op] = IF found THEN "included" ELSE "rejected"]
        /\ monitorTx' = [monitorTx EXCEPT ![w.op] = IF found THEN ForeignHash ELSE w.tx]
        /\ events' = [events EXCEPT ![w.op] =
                Append(@, IF found THEN "frontranOnChain" ELSE "failedOnChain")]
        /\ watchers' = [watchers EXCEPT ![i].pending = @ - 1, ![i].fired = @ + 1,
                                        ![i].active = FALSE]
    /\ UNCHANGED <<modeVars, subVars, hbVars, bt, poolVars, txVars, now, walletProcessed,
                   blockNumber, receiptVars>>
    /\ bundleNowResult' = NoResult

(* -------------------------------------------------- Receipt Reconstruction *)
\* User-operation hashes that may appear as topic1 of a log.
ReceiptOps == {"h1", "h2", "h3"}
LogAddresses == {"EP1", "EP2"}
zeroAddress == "0x0"

\* The logs a receipt may hold: UserOperationEvent and UserOperationRevertReason of the
\* entry point (topic1 is the userOpHash, data decodes to the revert reason), and logs
\* of other contracts, mined or still without block hash and log index.
ReceiptLogAlphabet ==
    {[kind |-> "UserOperationEvent", topic1 |-> h, address |-> a, data |-> "", mined |-> TRUE] :
        h \in ReceiptOps, a \in LogAddresses}
    \cup {[kind |-> "UserOperationRevertReason", topic1 |-> h, address |-> "EP1",
           data |-> <<"revertReason", h>>, mined |-> TRUE] : h \in ReceiptOps}
    \cup {[kind |-> "other", topic1 |-> "", address |-> "token", data |-> "", mined |-> m] :
           m \in BOOLEAN}

ReceiptLogSeqs == UNION {[1..n -> ReceiptLogAlphabet] : n \in 0..MaxLogs}

\* What getLogs and the event it found may be: nothing found, an event with undefined
\* members, an event of a pending transaction, an event of a mined transaction.
FilterResults == {"empty", "undefined members", "pending", "found"}

ReceiptNull == [status |-> "null"]
ReceiptError(message) == [status |-> "rejected", error |-> message]

\* Lines 744-748: the scan state before logs.forEach.
ScanInit ==
    [startIndex |-> 0 - 1, endIndex |-> 0 - 1, entryPoint |-> zeroAddress,
     revertReason |-> "undefined"]

\* The callback of lines 749-773 with the "else if (endIndex === -1)" of line 756
\* turned into a plain else.
ScanStepNoEndTest(acc, log, index, h) ==
    LET a1 == IF log.kind = "UserOperationEvent"
                 THEN IF log.topic1 = h
                         THEN [acc EXCEPT !.endIndex = index, !.entryPoint = log.address]
                         ELSE [acc EXCEPT !.startIndex = index]
                 ELSE acc
    IN IF log.kind = "UserOperationRevertReason" /\ log.topic1 = h
          THEN [a1 EXCEPT !.revertReason = log.data]
          ELSE a1

\* The callback of lines 749-773 for one log at its (0-based) index.
ScanStep(acc, log, index, h) ==
    LET a1 == IF log.kind = "UserOperationEvent"
                 THEN IF log.topic1 = h
                         THEN [acc EXCEPT !.endIndex = index, !.entryPoint = log.address]
                         ELSE IF acc.endIndex = 0 - 1
                                 THEN [acc EXCEPT !.startIndex = index]
                                 ELSE acc
                 ELSE acc
    IN IF log.kind = "UserOperationRevertReason" /\ log.topic1 = h
          THEN [a1 EXCEPT !.revertReason = log.data]
          ELSE a1

\* logs.forEach over the first n logs.
RECURSIVE Scan(_, _, _)
Scan(logs, n, h) ==
    IF n = 0 THEN ScanInit ELSE ScanStep(Scan(logs, n - 1, h), logs[n], n - 1, h)

\* logs.slice(from, to + 1): the end index included.
SliceInclusive(logs, from, to) == SubSeq(logs, from + 1, to + 1)

\* Array.prototype.slice(from, to) for 0 <= from: 0-based, to excluded.
Slice(logs, from, to) == SubSeq(logs, from + 1, to)

\* Lines 657-811: the value of getUserOperationReceipt(h) for what getLogs found and
\* the logs of the transaction receipt (all of them well-formed under the schemas).
UserOperationReceiptOf(h, filterResult, logs) ==
    IF filterResult = "empty" THEN ReceiptNull
    ELSE IF filterResult = "undefined members"
        THEN ReceiptError("userOperationEvent has undefined members")
    ELSE IF filterResult = "pending" THEN ReceiptNull
    ELSE IF \E i \in 1..Len(logs) : ~logs[i].mined THEN ReceiptNull
    ELSE LET scan == Scan(logs, Len(logs), h) IN
         IF scan.endIndex = 0 - 1
            THEN ReceiptError("fatal: no UserOperationEvent in logs")
            ELSE [status |-> "returned", userOpHash |-> h, entryPoint |-> scan.entryPoint,
                  reason |-> scan.revertReason,
                  logs |-> Slice(logs, scan.startIndex + 1, scan.endIndex)]

\* getUserOperationReceipt(userOperationHash) is called and settles.
getUserOperationReceipt(userOperationHash, filterResult) ==
    /\ userOperationReceipt' =
           UserOperationReceiptOf(userOperationHash, filterResult, receiptLogs)
    /\ UNCHANGED <<modeVars, subVars, hbVars, bt, poolVars, monitor, txVars, now, logVars,
                   watchVars, receiptLogs>>
    /\ bundleNowResult' = NoResult

(* ---------------------------------------------------------- specification *)
\* Mode Controller calls.
NextModes == \E m \in Modes : setBundlingMode(m)

\* External calls of the public subscription methods.
NextSubs == startWatchingBlocks \/ stopWatchingBlocks

\* The timer's bundle() ticks.
NextBundle ==
    \/ \E b \in Slots : TimerFire(b)
    \/ \E b \in Slots : BundleProcess(b)
    \/ \E b \in Slots : \E task \in bt[b].tasks :
          \E o \in [StageOps(task) -> BundleOutcomes], fee \in GasPrices :
              ExecutorReturn(b, task, o, fee)

\* bundleNow() calls.
NextBundleNow ==
    \/ \E b \in Slots : BundleNowCall(b)
    \/ \E b \in Slots : BundleNowProcess(b)

\* The block handler and the awaits it is suspended in.
NextBlocks ==
    \/ handleBlock
    \/ \E task \in hbTasks : StatusResult(task)
    \/ \E task \in hbTasks : StatusThrow(task)
    \/ \E g \in GasPrices : OracleResult(g)
    \/ OracleThrow
    \/ \E task \in hbTasks, res \in ReplaceResults : ReplaceResult(task, res)
    \/ \E task \in hbTasks : ReplaceThrow(task)

\* A bundle reverts with AA25; frontrun watchers and the blocks they are told about.
NextWatchers ==
    \/ \E t \in TxIds : ChainResolve(t, "reverted_AA25")
    \/ NewBlock
    \/ \E i \in 1..MaxWatchers : WatcherNotify(i)
    \/ \E i \in 1..MaxWatchers, found \in BOOLEAN : WatcherReceipt(i, found)

\* Users and the chain.
NextEnv ==
    \/ \E h \in Ops : AddOp(h)
    \/ \E t \in TxIds, st \in {"included", "reverted_AA95", "reverted"} : ChainResolve(t, st)

\* Receipt lookups (RPC).
NextReceipt ==
    \E h \in ReceiptOps, filterResult \in FilterResults : getUserOperationReceipt(h, filterResult)

Next == NextModes \/ NextSubs \/ NextBundle \/ NextBundleNow \/ NextBlocks \/ NextEnv
            \/ AdvanceTime \/ NextWatchers \/ NextReceipt

\* Everything at once.
Spec == Init /\ [][Next]_vars

\* Mode Controller and Bundling Loop: timer, mode switches, bundle() and bundleNow().
SpecModes == Init /\ [][NextModes \/ NextBundle \/ NextBundleNow \/ NextEnv]_vars

\* Bundling, block ticks, replacements, the chain and the clock.
SpecBlocks == Init /\ [][NextBundle \/ NextBlocks \/ NextEnv \/ AdvanceTime]_vars

\* Bundling and block ticks with external calls of start/stopWatchingBlocks.
SpecSubs == Init /\ [][NextSubs \/ NextBundle \/ NextBundleNow \/ NextBlocks \/ NextEnv]_vars

\* One bundle() tick at a time and the block handler, with every answer of the chain
\* (per-op execution status included) and of the Executor's gas estimate; awaited calls
\* do not reject and the clock stands still.
Gases == {1000, 1001}
\* Answers of the gas oracle, below, at and above the fees of GasPrices in either field.
OracleReadings == {<<1, 1>>, <<1, 2>>, <<2, 1>>, <<2, 2>>}

NextTick ==
    \/ \E h \in Ops : AddOp(h)
    \/ TimerFire(1)
    \/ BundleProcess(1)
    \/ \E task \in bt[1].tasks, fee \in GasPrices, gas \in Gases :
          ExecutorReturnWith(1, task, [h \in StageOps(task) |-> "success"], fee, gas,
                             DefaultNonce)
    \/ \E t \in TxIds, st \in {"included", "reverted_AA95", "reverted"} : ChainResolve(t, st)
    \/ handleBlock
    \/ \E task \in hbTasks, details \in [Ops -> OpStatuses] : StatusResultWith(task, details)
    \/ \E g \in GasPrices : OracleResult(g)
    \/ \E task \in hbTasks, res \in ReplaceResults : ReplaceResult(task, res)

SpecTick == Init /\ [][NextTick]_vars

\* Bundles that revert with AA25: one bundle() tick at a time, an Executor that
\* succeeds, an oracle that never asks for more, and the frontrun watchers.
NextFrontrun ==
    \/ \E h \in Ops : AddOp(h)
    \/ TimerFire(1)
    \/ BundleProcess(1)
    \/ \E task \in bt[1].tasks :
          ExecutorReturn(1, task, [h \in StageOps(task) |-> "success"], <<1, 1>>)
    \/ handleBlock
    \/ \E task \in hbTasks : StatusResult(task)
    \/ OracleResult(<<1, 1>>)
    \/ NextWatchers

SpecFrontrun == Init /\ [][NextFrontrun]_vars

\* Block ticks over bundles that revert with AA25, with a gas oracle that may ask for
\* more than a broadcast offers and the replacements that follow; the watchers are
\* started but no further block is delivered to them.
NextPending ==
    \/ \E h \in Ops : AddOp(h)
    \/ TimerFire(1)
    \/ BundleProcess(1)
    \/ \E task \in bt[1].tasks :
          ExecutorReturn(1, task, [h \in StageOps(task) |-> "success"], <<1, 1>>)
    \/ \E t \in TxIds : ChainResolve(t, "reverted_AA25")
    \/ handleBlock
    \/ \E task \in hbTasks : StatusResult(task)
    \/ \E g \in GasPrices : OracleResult(g)
    \/ \E task \in hbTasks, res \in ReplaceResults : ReplaceResult(task, res)

SpecPending == Init /\ [][NextPending]_vars

\* Receipt reconstruction alone: the chain holds any receipt of up to MaxLogs logs.
InitReceipt == InitManager /\ lastMode = "manual" /\ receiptLogs \in ReceiptLogSeqs

SpecReceipt == InitReceipt /\ [][NextReceipt]_vars

\* The happy path in auto mode: every Executor call succeeds, the gas price does not
\* rise, the chain includes what is broadcast; the oracle may fail.
InitAuto == Init /\ lastMode = "auto"

LiveNext ==
    \/ \E h \in Ops : AddOp(h)
    \/ \E b \in Slots : TimerFire(b)
    \/ \E b \in Slots : BundleProcess(b)
    \/ \E b \in Slots : \E task \in bt[b].tasks :
          ExecutorReturn(b, task, [h \in StageOps(task) |-> "success"], <<1, 1>>)
    \/ \E t \in TxIds : ChainResolve(t, "included")
    \/ handleBlock
    \/ \E task \in hbTasks : StatusResult(task)
    \/ OracleResult(<<1, 1>>)
    \/ OracleThrow

\* The timer keeps firing, awaited calls return, the chain mines, blocks arrive.
LiveFairness ==
    /\ \A b \in Slots : WF_vars(TimerFire(b))
    /\ \A b \in Slots : WF_vars(BundleProcess(b))
    /\ \A b \in Slots : WF_vars(\E task \in bt[b].tasks :
          ExecutorReturn(b, task, [h \in StageOps(task) |-> "success"], <<1, 1>>))
    /\ \A t \in TxIds : WF_vars(ChainResolve(t, "included"))
    /\ WF_vars(handleBlock)
    /\ WF_vars(\E task \in hbTasks : StatusResult(task))
    /\ WF_vars(OracleResult(<<1, 1>>))

LiveSpec == InitAuto /\ [][LiveNext]_vars /\ LiveFairness

(* ------------------------------------------------------------------ claims *)
\* C1: at most one handleBlock invocation is past the currentlyHandlingBlock guard, and
\* a block notification delivered while a tick is in flight changes no state.
C1_SingleFlight ==
    /\ handlersInFlight <= 1
    /\ (unWatch /\ currentlyHandlingBlock) => ENABLED (handleBlock /\ UNCHANGED stateVars)

\* C1 witness: a tick is suspended at an await while the subscription delivers blocks.
C1_TickSuspended ==
    unWatch /\ currentlyHandlingBlock /\ handlersInFlight = 1 /\ hbTasks # {}

\* C2: currentlyHandlingBlock is true only while a handleBlock invocation is in flight
\* (it is false again after a tick has ended, on every exit path).
C2_FlagOnlyWhileInFlight == currentlyHandlingBlock => handlersInFlight >= 1

\* C3: no handleBlock call rejects (a failed status lookup, oracle or replacement is
\* not propagated), and with no tick in flight a block notification is handled.
C3_NoErrorEscapes ==
    /\ hbPc # "rejected"
    /\ handlersInFlight = 0 => ~HandleBlockGuard

\* C4: every hash in submitted is bound to exactly one Transaction Info (no two
\* entries for one hash), and that Transaction Info carries the op.
C4_OneTransactionInfoPerOp ==
    /\ \A e1, e2 \in submitted : e1[1] = e2[1] => e1 = e2
    /\ \A e \in submitted :
          e[2] \in 1..Len(txs) /\ e[1] \in txs[e[2]].userOperationInfos

\* C4 witness: a submitted op is bound to the Transaction Info that replaced its first.
C4_BoundToReplacement ==
    \E e \in submitted : txs[e[2]].previousTransactionHashes # <<>>

\* C5: exactly one timer runs if the mode last requested is auto, none if it is manual;
\* requesting the current mode again changes nothing.
C5_TimerMatchesMode ==
    /\ activeTimers = (IF lastMode = "auto" THEN 1 ELSE 0)
    /\ timer = (lastMode = "auto")
    /\ SetBundlingModeTimer(lastMode, timer, activeTimers) = <<timer, activeTimers>>

\* C5 witness: auto -> manual -> auto has been requested and one timer runs.
C5_Toggled ==
    prevModes = <<"auto", "manual">> /\ lastMode = "auto" /\ activeTimers = 1

\* C6: at most one bundle() tick started by the timer is in flight.
C6_OneBundleTick == Cardinality({b \in Slots : bt[b].kind = "bundle"}) <= 1

\* C7: an op added while the mode is manual is passed to the Executor only by
\* bundleNow(), never by a bundle() tick.
C7_ManualOnlyBundleNow ==
    \A b \in Slots : bt[b].kind = "bundle" =>
        \A task \in bt[b].tasks : task.ops \cap manualOps = {}

\* C8: in auto mode every op in the mempool is eventually dispatched, submitted and
\* finally out of submitted with monitor status included.
C8_EventuallyIncluded ==
    \A h \in Ops :
        (h \in outstanding) ~> (monitor[h] = "included" /\ h \notin SubmittedOps(submitted))

\* C9: at most one block subscription is active, the handle is set exactly when one
\* is, and startWatchingBlocks with an active subscription creates no other.
C9_OneSubscription ==
    /\ activeSubs <= 1
    /\ unWatch <=> activeSubs = 1
    /\ unWatch => StartWatching(unWatch, activeSubs) = <<unWatch, activeSubs>>

\* C9 witness: two ops were submitted, each calling startWatchingBlocks, one subscription.
C9_TwoSubmissions == Cardinality(submitted) = 2 /\ activeSubs = 1

\* C10 as stated: whenever submitted is empty, the block notification delivered next
\* cancels the subscription and clears its handle.
C10_TornDownByNextBlock ==
    (unWatch /\ submitted = {}) =>
        ENABLED (handleBlock /\ ~unWatch' /\ activeSubs' = 0)

\* C10 amended: a block notification delivered while submitted is empty and no tick
\* holds the guard cancels the subscription, clears its handle and leaves the guard open.
C10_TornDownUnlessCoalesced ==
    (unWatch /\ submitted = {} /\ ~currentlyHandlingBlock) =>
        ENABLED (handleBlock /\ ~unWatch' /\ activeSubs' = 0 /\ ~currentlyHandlingBlock')

\* C10 witness: ops were included, submitted is empty again and the handler has torn
\* the subscription down.
C10_TornDown ==
    /\ \E h \in Ops : monitor[h] = "included"
    /\ submitted = {} /\ ~unWatch /\ activeSubs = 0 /\ ~currentlyHandlingBlock

\* C11: after the status refresh, exactly the Transaction Infos in submitted with
\* maxFeePerGas or maxPriorityFeePerGas strictly below the oracle's are replaced with
\* reason "gas_price"; with both fees equal or above, none is.
C11_GasPriceStrictlyLower ==
    \A g \in OracleReadings :
        hbPc = "oracle" =>
            ENABLED (/\ OracleResult(g)
                     /\ {x.tx : x \in {y \in hbTasks' : y.reason = "gas_price"}} =
                            {t \in getTransactionsFromUserOperationEntries(submitted) :
                                txs[t].fee[1] < g[1] \/ txs[t].fee[2] < g[2]})

\* C11 witness: a gas_price replacement is awaited for a Transaction Info whose
\* maxPriorityFeePerGas is not the oracle's while another one in submitted is left alone.
C11_GasPriceReplacing ==
    /\ hbPc = "gas"
    /\ \E x \in hbTasks : x.reason = "gas_price"
    /\ \E t \in getTransactionsFromUserOperationEntries(submitted) :
          \A x \in hbTasks : x.tx # t

\* C12: when the gas-price pass of a block tick is over, exactly the Transaction Infos
\* then in submitted with now - lastReplaced >= 5 minutes are replaced with reason
\* "stuck" (exactly 5 minutes counts).
C12_StuckAtFiveMinutes ==
    [][(hbPc \in {"oracle", "gas"} /\ hbPc' \in {"stuck", "idle"}) =>
          {x.tx : x \in {y \in hbTasks' : y.reason = "stuck"}} =
              {t \in getTransactionsFromUserOperationEntries(submitted') :
                  Times[now] - txs'[t].lastReplaced >= 5 * 60 * 1000}]_vars

\* C12 witness: a stuck replacement is awaited for a Transaction Info last replaced
\* exactly 5 minutes ago.
C12_StuckExactly ==
    /\ hbPc = "stuck"
    /\ \E x \in hbTasks :
          x.reason = "stuck" /\ Times[now] - txs[x.tx].lastReplaced = 5 * 60 * 1000

\* C13: a status refresh takes the included branch whenever any candidate hash
\* (current or previous) is included, even with another candidate reverted; it takes a
\* reverted branch only if none is included and one is reverted; with every candidate
\* not found it changes nothing of mempool, monitor, events or Transaction Infos.
C13_IncludedWins ==
    \A task \in {x \in hbTasks : x.kind = "status"} :
        LET t == task.tx
            ops == txs[t].userOperationInfos
            cands == {t} \cup SeqToSet(txs[t].previousTransactionHashes)
            anyIncluded == \E c \in cands : chain[c] = "included"
            anyReverted == \E c \in cands :
                chain[c] \in {"reverted", "reverted_AA95", "reverted_AA25"}
        IN ENABLED
            (/\ StatusResult(task)
             /\ IF anyIncluded
                   THEN \A h \in ops :
                          /\ monitor'[h] = "included"
                          /\ chain[monitorTx'[h]] = "included"
                          /\ h \notin SubmittedOps(submitted')
                          /\ Len(events'[h]) = Len(events[h]) + 1
                          /\ events'[h][Len(events'[h])] = "includedOnChain"
                ELSE IF anyReverted
                   THEN /\ \A h \in ops : monitor'[h] # "included"
                        /\ \/ txs'[t].nonce = txs[t].nonce + 1
                           \/ Len(watchers') > Len(watchers)
                           \/ \A h \in ops :
                                 /\ monitor'[h] = "rejected"
                                 /\ events'[h] = Append(events[h], "failedOnChain")
                ELSE UNCHANGED <<poolVars, monitor, logVars, txVars, watchers>>)

\* C13 witness: an op was marked included with the hash of a replaced (previous)
\* transaction while the current transaction of the same Transaction Info had reverted.
C13_PreviousIncludedCurrentReverted ==
    \E h \in Ops, t \in 1..Len(txs) :
        /\ h \in txs[t].userOperationInfos
        /\ chain[t] = "reverted_AA95"
        /\ monitor[h] = "included"
        /\ monitorTx[h] \in SeqToSet(txs[t].previousTransactionHashes)

\* C14: when a transaction resolves as included, every op of the Transaction Info is
\* removed from submitted, gets monitor status included with the included hash and
\* exactly one event (includedOnChain if its own status is "succesful", else
\* executionRevertedOnChain); other ops get none and the wallet is marked processed once.
C14_IncludedHandling ==
    \A task \in {x \in hbTasks : x.kind = "status"}, details \in [Ops -> OpStatuses] :
        LET t == task.tx
            ops == txs[t].userOperationInfos
            included == {c \in {t} \cup SeqToSet(txs[t].previousTransactionHashes) :
                            chain[c] = "included"}
        IN included # {} =>
            ENABLED
              (/\ StatusResultWith(task, details)
               /\ \A h \in ops :
                     /\ h \notin SubmittedOps(submitted')
                     /\ monitor'[h] = "included"
                     /\ monitorTx'[h] \in included
                     /\ events'[h] = Append(events[h],
                            IF details[h] = "succesful" THEN "includedOnChain"
                            ELSE "executionRevertedOnChain")
               /\ \A h \in Ops \ ops : events'[h] = events[h]
               /\ walletProcessed' = [walletProcessed EXCEPT ![t] = @ + 1])

\* C14 witness: both ops were included, one executed and the other reverted in its
\* bundle, and the wallet of each Transaction Info was marked processed once.
C14_IncludedBoth ==
    /\ events["h1"] = <<"includedOnChain">> /\ events["h2"] = <<"executionRevertedOnChain">>
    /\ monitor["h1"] = "included" /\ monitor["h2"] = "included"
    /\ submitted = {}
    /\ \A t \in 1..Len(txs) : walletProcessed[t] = 1

\* C15: gas and nonce of a Transaction Info change only when its status refresh finds
\* an AA95 revert: gas becomes floor(gas * aa95ResubmitMultiplier / 100), nonce becomes
\* nonce + 1, once, and the mutated Transaction Info is the one then handed to
\* replaceTransaction with reason "AA95"; every AA95 replacement starts that way.
C15_Aa95Mutation ==
    [][/\ \A t \in 1..Len(txs) :
            (txs'[t].gas # txs[t].gas \/ txs'[t].nonce # txs[t].nonce) =>
                /\ FinalizedTransaction(t, txs, chain) # 0
                /\ chain[FinalizedTransaction(t, txs, chain)] = "reverted_AA95"
                /\ txs'[t].gas * 100 <= txs[t].gas * aa95ResubmitMultiplier
                /\ (txs'[t].gas + 1) * 100 > txs[t].gas * aa95ResubmitMultiplier
                /\ txs'[t].nonce = txs[t].nonce + 1
                /\ HbTask(t, "replace", "AA95") \in hbTasks' \ hbTasks
       /\ \A x \in hbTasks' \ hbTasks :
            x.reason = "AA95" =>
                /\ txs'[x.tx].nonce = txs[x.tx].nonce + 1
                /\ txs'[x.tx].gas # txs[x.tx].gas
      ]_vars

\* C15 witness: replaceTransaction is awaited with reason "AA95" for a Transaction Info
\* whose gas went from 1001 to 1251 and whose nonce went from 7 to 8.
C15_Bumped ==
    \E x \in hbTasks :
        x.reason = "AA95" /\ txs[x.tx].gas = 1251 /\ txs[x.tx].nonce = 8

\* C16: while replaceTransaction with reason "AA95" is awaited, no op of that
\* Transaction Info is in submitted, no submitted entry is bound to it, and no other
\* status refresh or replacement of the block handler works on it.
C16_RemovedBeforeAa95Replace ==
    \A x \in {y \in hbTasks : y.reason = "AA95"} :
        /\ \A e \in submitted :
              e[2] # x.tx /\ e[1] \notin txs[x.tx].userOperationInfos
        /\ \A y \in hbTasks \ {x} : y.tx # x.tx

\* C16 witness: an AA95 replacement is awaited during the status refresh while
\* another Transaction Info is still in submitted.
C16_Aa95ReplaceAwaited ==
    /\ \E x \in hbTasks : x.reason = "AA95" /\ x.kind = "replace"
    /\ submitted # {}

\* C17: an op whose transaction reverted with AA25 leaves submitted through its
\* frontrun watcher: once a watcher of the op has set the monitor status, the op is no
\* longer in submitted.
C17_WatcherRemovesFromSubmitted ==
    \A i \in 1..Len(watchers) :
        watchers[i].fired > 0 => watchers[i].op \notin SubmittedOps(submitted)

\* C18: a frontrun watcher makes its transition (status update and event) at most once.
C18_WatcherFiresOnce ==
    \A i \in 1..Len(watchers) : watchers[i].fired <= 1

\* C19: a notification with currentBlockNumber <= anchor + 1 changes nothing but what
\* the watcher has seen; one with currentBlockNumber > anchor + 1 starts a receipt
\* lookup whose return sets monitor status included with the receipt's hash and emits
\* frontranOnChain if a receipt is found, else sets rejected with the reverted hash and
\* emits failedOnChain, and cancels the subscription.
C19_WatcherTransition ==
    [][\A i \in 1..Len(watchers) :
          LET w == watchers[i]
              v == watchers'[i]
          IN /\ v.seen # w.seen =>
                   /\ UNCHANGED <<monitor, logVars>>
                   /\ v.active = w.active /\ v.fired = w.fired
                   /\ v.pending = IF blockNumber <= w.anchor + 1 THEN w.pending
                                  ELSE w.pending + 1
             /\ v.fired # w.fired =>
                   /\ w.pending > 0 /\ v.fired = w.fired + 1 /\ ~v.active
                   /\ \/ /\ monitor'[w.op] = "included"
                         /\ monitorTx'[w.op] = ForeignHash
                         /\ events'[w.op] = Append(events[w.op], "frontranOnChain")
                      \/ /\ monitor'[w.op] = "rejected"
                         /\ monitorTx'[w.op] = w.tx
                         /\ events'[w.op] = Append(events[w.op], "failedOnChain")
             /\ v.pending > w.pending => w.seen < blockNumber /\ blockNumber > w.anchor + 1
      ]_vars

\* C19 witness: a watcher ignored the block after its anchor, found a receipt on a later
\* one and is unsubscribed.
C19_Frontran ==
    \E i \in 1..Len(watchers) :
        /\ ~watchers[i].active /\ watchers[i].fired = 1 /\ watchers[i].pending = 0
        /\ watchers[i].seen > watchers[i].anchor + 1
        /\ monitor[watchers[i].op] = "included"
        /\ events[watchers[i].op] = <<"frontranOnChain">>

\* C20: timesPotentiallyIncluded changes only by +1, on the return of a replacement of
\* that transaction, and never exceeds 3; on that return the ops are removed from
\* submitted and the wallet is marked processed if the counter reached 3, and submitted
\* and the wallets are left alone if it did not.
C20_PotentiallyIncludedCounter ==
    [][\A t \in 1..Len(txs) :
          LET before == txs[t].timesPotentiallyIncluded
              after == txs'[t].timesPotentiallyIncluded
          IN /\ after \in {before, before + 1} /\ after <= 3
             /\ after = before + 1 =>
                   /\ \E task \in hbTasks : task.kind = "replace" /\ task.tx = t
                   /\ IF after = 3
                         THEN /\ submitted' =
                                    {e \in submitted : e[1] \notin txs[t].userOperationInfos}
                              /\ walletProcessed' =
                                    [walletProcessed EXCEPT ![t] = walletProcessed[t] + 1]
                         ELSE UNCHANGED <<submitted, walletProcessed>>
      ]_vars

\* C20 witness: a transaction was reported potentially already included three times;
\* its ops left submitted and its wallet was marked processed once.
C20_ThirdTime ==
    \E t \in 1..Len(txs) :
        /\ txs[t].timesPotentiallyIncluded = 3
        /\ walletProcessed[t] = 1
        /\ \A e \in submitted : e[1] \notin txs[t].userOperationInfos

\* C21: when a replacement returns potentially_already_included and the counter is
\* still below 3, every op of the transaction is still in submitted bound to the same
\* Transaction Info after the call, whatever the reason of the replacement.
C21_StillObserved ==
    [][\A task \in hbTasks :
          (/\ task.kind = "replace"
           /\ txs'[task.tx].timesPotentiallyIncluded =
                  txs[task.tx].timesPotentiallyIncluded + 1
           /\ txs'[task.tx].timesPotentiallyIncluded < 3)
          => \A h \in txs[task.tx].userOperationInfos : <<h, task.tx>> \in submitted'
      ]_vars

\* C22: when a replacement returns replaced, matching and missing partition the ops of
\* the old Transaction Info; afterwards every matching op is in submitted bound to the
\* new Transaction Info, no missing op is in submitted and no entry is bound to the old
\* Transaction Info.
C22_ReplacedRebinds ==
    [][\A task \in hbTasks :
          (/\ task.kind = "replace"
           /\ Len(txs') = Len(txs) + 1
           /\ txs'[Len(txs')].previousTransactionHashes # <<>>
           /\ Head(txs'[Len(txs')].previousTransactionHashes) = task.tx)
          => LET newTx == Len(txs')
                 old == txs[task.tx].userOperationInfos
                 matching == {h \in old : h \in txs'[newTx].userOperationInfos}
                 missing == {h \in old : h \notin txs'[newTx].userOperationInfos}
             IN /\ matching \cap missing = {} /\ matching \cup missing = old
                /\ \A h \in matching : <<h, newTx>> \in submitted'
                /\ \A h \in missing : h \notin SubmittedOps(submitted')
                /\ \A e \in submitted' : e[2] # task.tx
      ]_vars

\* C23: when executor.replaceTransaction returns failed, every op of the Transaction
\* Info is gone from submitted (none rebound), the other entries and every
\* timesPotentiallyIncluded are as before, and the call returns without error.
C23_FailedRemovesAll ==
    \A task \in hbTasks :
        task.kind = "replace" =>
            /\ ENABLED ReplaceResult(task, "failed")
            /\ ~ENABLED (/\ ReplaceResult(task, "failed")
                         /\ ~(/\ submitted' = {e \in submitted :
                                     e[1] \notin txs[task.tx].userOperationInfos}
                              /\ txs' = txs
                              /\ task \notin hbTasks'
                              /\ hbPc' # "rejected"))

\* C23 witness: a gas-price replacement is awaited for a transaction whose ops are all
\* in submitted, after it was already reported potentially included.
C23_ReplaceAwaitedForSubmitted ==
    \E task \in hbTasks :
        /\ task.kind = "replace" /\ task.reason = "gas_price"
        /\ txs[task.tx].timesPotentiallyIncluded > 0
        /\ \A h \in txs[task.tx].userOperationInfos : <<h, task.tx>> \in submitted

\* C24: a bundleNow() call to which mempool.process hands no ops rejects with "no ops
\* to bundle"; neither the call of process nor the rejection changes anything but the
\* invocation itself: no Executor call, no submitted entry, no monitor status, no block
\* subscription.  Nothing else rejects with that error.
C24_NoOpsToBundle ==
    [][/\ \A b \in Slots :
            /\ (bt[b].kind = "idle" /\ bt'[b].kind = "bundleNow" /\ bt'[b].batch = {})
                   => /\ bt'[b].tasks = {}
                      /\ UNCHANGED <<modeVars, subVars, hbVars, poolVars, monitor, txVars,
                                     now, logVars, watchVars>>
            /\ (/\ bt[b].kind = "bundleNow" /\ bt[b].pc = "process" /\ bt[b].batch = {}
                 /\ bt'[b] # bt[b])
                   => /\ bundleNowResult' = Rejected("no ops to bundle")
                      /\ bt' = [bt EXCEPT ![b] = IdleTick]
                      /\ UNCHANGED <<modeVars, subVars, hbVars, poolVars, monitor, txVars,
                                     now, logVars, watchVars>>
       /\ bundleNowResult'.error = "no ops to bundle" /\ bundleNowResult' # bundleNowResult
            => \E b \in Slots : /\ bt[b].kind = "bundleNow" /\ bt[b].pc = "process"
                                /\ bt[b].batch = {}
      ]_vars

\* C24 witness: a bundleNow() call has just rejected with "no ops to bundle" while ops
\* of an earlier bundle are submitted and watched.
C24_RejectedNoOps ==
    /\ bundleNowResult = Rejected("no ops to bundle")
    /\ submitted # {}

\* C25: when a bundleNow() call settles after its sendToExecutor, it returns the hash
\* of every transaction the Executor broadcast during the call (for the uncompressed
\* and for the compressed bundle), and it rejects with "no tx hash" if none was.
C25_ReturnsAllHashes ==
    [][\A b \in Slots : \A task \in bt[b].tasks :
          (bt[b].kind = "bundleNow" /\ bt[b].pc = "send" /\ bt'[b] = IdleTick)
          => LET broadcast ==
                     {r.tx : r \in {x \in task.results : x.status = "success"}}
                     \cup (IF Len(txs') > Len(txs) THEN {Len(txs')} ELSE {})
             IN IF broadcast = {}
                   THEN bundleNowResult' = Rejected("no tx hash")
                   ELSE /\ bundleNowResult'.status = "returned"
                        /\ broadcast \subseteq SeqToSet(bundleNowResult'.txHashes)
      ]_vars

\* C26: when the last Executor call of a sendToExecutor returns, every result of the
\* call is applied to its op, and only that: a success op is in submitted bound to the
\* returned Transaction Info with monitor status submitted and that hash; a failure op
\* is out of processing with monitor status rejected, a null hash and one more dropped
\* event; a resubmit op is out of processing and back in the mempool.
C26_EachResultApplied ==
    \A b \in Slots : \A task \in bt[b].tasks :
        (bt[b].pc = "send" /\ ~(task.stage = "bundle" /\ Compressed(task.ops) # {}))
        => \A o \in [StageOps(task) -> BundleOutcomes], fee \in GasPrices :
            LET earlier == {r.op : r \in task.results}
                status(h) == IF h \in StageOps(task) THEN o[h]
                             ELSE (CHOOSE r \in task.results : r.op = h).status
                hash(h) == IF h \in StageOps(task) THEN Len(txs) + 1
                           ELSE (CHOOSE r \in task.results : r.op = h).tx
            IN ~ENABLED
                (/\ ExecutorReturn(b, task, o, fee)
                 /\ ~(\A h \in StageOps(task) \cup earlier :
                        CASE status(h) = "success" ->
                                 /\ <<h, hash(h)>> \in submitted'
                                 /\ \A e \in submitted' : e[1] = h => e[2] = hash(h)
                                 /\ h \in txs'[hash(h)].userOperationInfos
                                 /\ monitor'[h] = "submitted" /\ monitorTx'[h] = hash(h)
                                 /\ h \notin outstanding' /\ events'[h] = events[h]
                          [] status(h) = "failure" ->
                                 /\ h \notin processing' /\ h \notin SubmittedOps(submitted')
                                 /\ monitor'[h] = "rejected" /\ monitorTx'[h] = 0
                                 /\ events'[h] = Append(events[h], "dropped")
                                 /\ h \notin outstanding'
                          [] status(h) = "resubmit" ->
                                 /\ h \notin processing' /\ h \in outstanding'
                                 /\ h \notin SubmittedOps(submitted')
                                 /\ monitor'[h] = monitor[h] /\ monitorTx'[h] = monitorTx[h]
                                 /\ events'[h] = events[h]
                          [] OTHER ->
                                 /\ h \notin SubmittedOps(submitted') /\ h \notin outstanding'
                                 /\ monitor'[h] = monitor[h] /\ events'[h] = events[h]))

\* C26 witness: one sendToExecutor call ended with h1 submitted and h2 dropped.
C26_OneSubmittedOneDropped ==
    /\ \E t \in 1..Len(txs) : <<"h1", t>> \in submitted /\ monitorTx["h1"] = t
    /\ monitor["h1"] = "submitted"
    /\ monitor["h2"] = "rejected" /\ monitorTx["h2"] = 0 /\ events["h2"] = <<"dropped">>
    /\ processing = {} /\ outstanding = {}

\* C27: for a mined receipt in which every op has at most one UserOperationEvent,
\* getUserOperationReceipt(h) fails fatally if there is no UserOperationEvent of h; else
\* it returns as logs exactly the logs after the nearest earlier UserOperationEvent of
\* another op (from the first log if there is none) and before h's own event, as
\* entryPoint the address of h's event log, and as reason the decoded
\* UserOperationRevertReason log of h (undefined if there is none).
C27_ReceiptSlice ==
    LET ownEvents(h) == {i \in 1..Len(receiptLogs) :
                         /\ receiptLogs[i].kind = "UserOperationEvent"
                         /\ receiptLogs[i].topic1 = h}
        ownReasons(h) == {i \in 1..Len(receiptLogs) :
                          /\ receiptLogs[i].kind = "UserOperationRevertReason"
                          /\ receiptLogs[i].topic1 = h}
    IN ((\A i \in 1..Len(receiptLogs) : receiptLogs[i].mined)
        /\ \A g \in ReceiptOps : Cardinality(ownEvents(g)) <= 1)
       => \A h \in ReceiptOps :
            ~ENABLED
              (/\ getUserOperationReceipt(h, "found")
               /\ ~(IF ownEvents(h) = {}
                       THEN userOperationReceipt' =
                                ReceiptError("fatal: no UserOperationEvent in logs")
                       ELSE LET e == CHOOSE i \in ownEvents(h) : TRUE
                                before == {i \in 1..(e - 1) :
                                              \E g \in ReceiptOps \ {h} : i \in ownEvents(g)}
                                s == IF before = {} THEN 0
                                     ELSE CHOOSE i \in before : \A j \in before : j <= i
                            IN /\ userOperationReceipt'.status = "returned"
                               /\ userOperationReceipt'.userOpHash = h
                               /\ userOperationReceipt'.logs =
                                      [k \in 1..(e - 1 - s) |-> receiptLogs[s + k]]
                               /\ userOperationReceipt'.entryPoint = receiptLogs[e].address
                               /\ userOperationReceipt'.reason =
                                      IF ownReasons(h) = {} THEN "undefined"
                                      ELSE receiptLogs[CHOOSE i \in ownReasons(h) : TRUE].data))

\* C27 witness: ops h1, h2, h3 in order with a revert reason for h2; the receipt of h2
\* was returned with the one log between the events of h1 and h2.
C27_ThreeOps ==
    /\ Len(receiptLogs) = 4
    /\ [i \in 1..4 |-> receiptLogs[i].kind] =
           <<"UserOperationEvent", "UserOperationRevertReason", "UserOperationEvent",
             "UserOperationEvent">>
    /\ [i \in 1..4 |-> receiptLogs[i].topic1] = <<"h1", "h2", "h2", "h3">>
    /\ userOperationReceipt.status = "returned"
    /\ userOperationReceipt.userOpHash = "h2"
    /\ userOperationReceipt.logs = <<receiptLogs[2]>>
    /\ userOperationReceipt.reason = <<"revertReason", "h2">>
    /\ userOperationReceipt.entryPoint = receiptLogs[3].address

\* C28 as stated: when h's UserOperationEvent is the only one in a mined receipt (h is
\* the first and only op of the transaction), the logs returned for h are empty.
C28_EmptyForOnlyOp ==
    LET allEvents == {i \in 1..Len(receiptLogs) :
                         receiptLogs[i].kind = "UserOperationEvent"}
    IN \A h \in ReceiptOps :
        (/\ \A i \in 1..Len(receiptLogs) : receiptLogs[i].mined
         /\ Cardinality(allEvents) = 1
         /\ \A i \in allEvents : receiptLogs[i].topic1 = h)
        => ~ENABLED (/\ getUserOperationReceipt(h, "found")
                     /\ ~(/\ userOperationReceipt'.status = "returned"
                          /\ userOperationReceipt'.logs = <<>>))

\* C28 amended: when h's UserOperationEvent is the only one in a mined receipt, the
\* logs returned for h are all the logs before that event; they are empty exactly when
\* the event is the first log of the receipt.
C28_OnlyOpGetsLogsBeforeEvent ==
    LET allEvents == {i \in 1..Len(receiptLogs) :
                         receiptLogs[i].kind = "UserOperationEvent"}
    IN \A h \in ReceiptOps :
        (/\ \A i \in 1..Len(receiptLogs) : receiptLogs[i].mined
         /\ Cardinality(allEvents) = 1
         /\ \A i \in allEvents : receiptLogs[i].topic1 = h)
        => LET e == CHOOSE i \in allEvents : TRUE IN
           ~ENABLED (/\ getUserOperationReceipt(h, "found")
                     /\ ~(/\ userOperationReceipt'.status = "returned"
                          /\ userOperationReceipt'.logs =
                                 [k \in 1..(e - 1) |-> receiptLogs[k]]
                          /\ (userOperationReceipt'.logs = <<>>) <=> (e = 1)))

\* C28 witness: the only UserOperationEvent is the first of several logs and the
\* receipt was returned with no logs.
C28_EventFirst ==
    /\ Len(receiptLogs) > 1
    /\ receiptLogs[1].kind = "UserOperationEvent"
    /\ \A i \in 2..Len(receiptLogs) : receiptLogs[i].kind = "other" /\ receiptLogs[i].mined
    /\ userOperationReceipt.status = "returned"
    /\ userOperationReceipt.userOpHash = receiptLogs[1].topic1
    /\ userOperationReceipt.logs = <<>>

\* C29: in a block tick no gas_price or stuck replacement is awaited before the status
\* refresh has completed, no stuck replacement before the gas_price replacements have,
\* and no gas_price or stuck replacement is started for a transaction of which the
\* refresh resolved a candidate hash as reverted (one the frontrun check was started
\* for) or included.
C29_ReplaceOnlyPending ==
    LET policy == {x \in hbTasks : x.kind = "replace" /\ x.reason \in {"gas_price", "stuck"}}
    IN /\ hbPc \in {"refresh", "oracle"} => policy = {}
       /\ hbPc = "gas" => hbTasks = {x \in policy : x.reason = "gas_price"}
       /\ hbPc = "stuck" => hbTasks = {x \in policy : x.reason = "stuck"}
       /\ \A x \in policy :
             \A i \in 1..Len(watchers) :
                 watchers[i].tx \notin SeqToSet(TxHashesToCheck(x.tx, txs))

\* C30: whenever submitted is not empty a block subscription is active, and a
\* successful submission leaves submitted non-empty with exactly one subscription
\* active in the step that marks the op submitted, also when the subscription had been
\* torn down before.
C30_WatchedWhileSubmitted ==
    /\ submitted # {} => unWatch /\ activeSubs = 1
    /\ \A b \in Slots : \A task \in bt[b].tasks :
          (bt[b].pc = "send" /\ ~(task.stage = "bundle" /\ Compressed(task.ops) # {})
           /\ Len(txs) < MaxTx)
          => ~ENABLED (/\ ExecutorReturn(b, task, [h \in StageOps(task) |-> "success"],
                                         <<1, 1>>)
                       /\ ~(submitted' # {} /\ unWatch' /\ activeSubs' = 1))

\* C30 witness: the subscription has been torn down after an op was included, and an
\* Executor call for the next op is about to return.
C30_SubmissionAfterTeardown ==
    /\ ~unWatch /\ activeSubs = 0 /\ submitted = {}
    /\ \E h \in Ops : monitor[h] = "included"
    /\ \E b \in Slots : \E task \in bt[b].tasks :
          /\ bt[b].pc = "send" /\ Len(txs) < MaxTx
          /\ ~(task.stage = "bundle" /\ Compressed(task.ops) # {})

\* C31: for each user-operation hash at most one terminal on-chain outcome event
\* (includedOnChain, executionRevertedOnChain, failedOnChain, frontranOnChain) has been
\* emitted, and at most one frontrun watcher has been started.
C31_AtMostOneOutcome ==
    \A h \in Ops :
        /\ Len(SelectSeq(events[h],
                LAMBDA e : e \in {"includedOnChain", "executionRevertedOnChain",
                                  "failedOnChain", "frontranOnChain"})) <= 1
        /\ Cardinality({i \in 1..Len(watchers) : watchers[i].op = h}) <= 1

\* C32: once no bundle() or bundleNow() tick is in flight, no op that mempool.process
\* handed out is left in the processing state: each one was marked submitted, removed
\* from processing or re-added to the mempool.
C32_NoOpLeftProcessing ==
    (\A b \in Slots : bt[b].kind = "idle") => processing = {}

\* C33: within a block tick, when the replaceTransaction call made for a transaction by
\* the AA95 path or by the gas-price pass settles, the tick passes that Transaction Info
\* to replaceTransaction no further time.
C33_ReplacedOncePerTick ==
    [][\A task \in hbTasks :
          (/\ task.kind = "replace"
           /\ task.reason \in {"AA95", "gas_price"}
           /\ task \notin hbTasks')
          => \A later \in hbTasks' : ~(later.kind = "replace" /\ later.tx = task.tx)]_vars

====
